---- MODULE Spec2Model ----
(***************************************************************************)
(* Model of psychopy/tools/viewtools.py: computeFrustum,                   *)
(* generalPerspectiveProjection, orthoProjectionMatrix,                    *)
(* perspectiveProjectionMatrix and lookAt.                                 *)
(*                                                                         *)
(* Numbers.  A floating-point value is modelled as a pair <<n, d>>:        *)
(*   d > 0      the finite value n/d, in lowest terms;                     *)
(*   <<1, 0>>   +Inf,   <<-1, 0>>  -Inf,   <<0, 0>>  NaN.                  *)
(* Arithmetic is exact: rounding to 32 or 64 bits, overflow and the sign   *)
(* of zero are not modelled.  A square root is taken only of values whose  *)
(* root is rational; the inputs are drawn so that this is the case.        *)
(*                                                                         *)
(* Arrays.  A one-dimensional numpy array is a sequence of numbers, a 4x4  *)
(* matrix a sequence of four rows; M[i][j] is the source's M[i-1, j-1].    *)
(*                                                                         *)
(* State.  The functions are pure apart from what they do to the caller's  *)
(* argument objects, so the state is one invocation: the pending call, the *)
(* caller's vector objects, and the outcome of the call.                   *)
(***************************************************************************)
EXTENDS Integers, Sequences, FiniteSets, TLC

VARIABLES pc, call, mem, ret, inner

vars == <<pc, call, mem, ret, inner>>

-----------------------------------------------------------------------------
(* Bounds of the input sets. *)

MaxExt == 1
MaxClip == 2
MaxWidth == 2
MaxAspect == 2
MaxDist == 2
MaxOffset == 1
MaxNear == 2
MaxPos == 1
MaxUp == 4
MaxScr == 1
MaxLen == 4

-----------------------------------------------------------------------------
(* Extended rational arithmetic: the float operations the source uses. *)

Abs(k) == IF k < 0 THEN -k ELSE k

Sign(k) == IF k < 0 THEN -1 ELSE IF k > 0 THEN 1 ELSE 0

RECURSIVE GCD(_, _)
GCD(a, b) == IF b = 0 THEN a ELSE GCD(b, a % b)

Q(n, d) ==
    IF d = 0 THEN <<Sign(n), 0>>
    ELSE LET g == GCD(Abs(n), Abs(d))
             s == IF d < 0 THEN -1 ELSE 1
         IN  <<(s * n) \div g, (s * d) \div g>>

Num(k) == <<k, 1>>

Zero == Num(0)
One == Num(1)
Two == Num(2)
NaN == <<0, 0>>
PosInf == <<1, 0>>
NegInf == <<-1, 0>>

IsFinite(x) == x[2] > 0

Neg(x) == <<-x[1], x[2]>>

Add(x, y) ==
    IF x[2] = 0 /\ y[2] = 0
    THEN (IF x[1] = y[1] THEN x ELSE NaN)
    ELSE Q(x[1] * y[2] + y[1] * x[2], x[2] * y[2])

Sub(x, y) == Add(x, Neg(y))

Mul(x, y) == Q(x[1] * y[1], x[2] * y[2])

Recip(x) == IF x[1] < 0 THEN <<-x[2], -x[1]>> ELSE <<x[2], x[1]>>

Div(x, y) == Mul(x, Recip(y))

Lt(x, y) == x[1] * y[2] < y[1] * x[2]

IsPerfectSquare(k) == k >= 0 /\ \E i \in 0..k : i * i = k

ISqrt(k) == CHOOSE i \in 0..k : i * i = k

HasExactRoot(x) == x[1] < 0 \/ (IsPerfectSquare(x[1]) /\ IsPerfectSquare(x[2]))

Sqrt(x) == IF x[1] < 0 THEN NaN ELSE <<ISqrt(x[1]), ISqrt(x[2])>>

-----------------------------------------------------------------------------
(* Outcome of a call: a returned value, or an exception raised at a line. *)

Returned(v) == [status |-> "returned", error |-> "", line |-> 0, value |-> v]

Raised(e, l) == [status |-> "raised", error |-> e, line |-> l, value |-> <<>>]

NoOutcome == [status |-> "none", error |-> "", line |-> 0, value |-> <<>>]

ScalarKinds == {"pyfloat", "npfloat"}

(* a / b on scalars raises ZeroDivisionError exactly when both operands are
   Python floats and b is zero; numpy scalars give Inf or NaN instead. *)
DivRaises(kind, b) == kind = "pyfloat" /\ b = Zero

-----------------------------------------------------------------------------
(* 4x4 matrices. *)

ZeroRow == <<Zero, Zero, Zero, Zero>>

Zeros44 == <<ZeroRow, ZeroRow, ZeroRow, ZeroRow>>

Set44(M, i, j, v) == [M EXCEPT ![i][j] = v]

Dot4(r, M, j) ==
    Add(Add(Mul(r[1], M[1][j]), Mul(r[2], M[2][j])),
        Add(Mul(r[3], M[3][j]), Mul(r[4], M[4][j])))

RowTimes(r, M) == <<Dot4(r, M, 1), Dot4(r, M, 2), Dot4(r, M, 3), Dot4(r, M, 4)>>

matmul(A, B) ==
    <<RowTimes(A[1], B), RowTimes(A[2], B), RowTimes(A[3], B), RowTimes(A[4], B)>>

MatFinite(M) == \A i \in 1..4 : \A j \in 1..4 : IsFinite(M[i][j])

-----------------------------------------------------------------------------
(* computeFrustum, lines 20-78. *)

Frustum(left, right, bottom, top, nearVal, farVal) ==
    [left |-> left, right |-> right, bottom |-> bottom, top |-> top,
     nearVal |-> nearVal, farVal |-> farVal]

(* computeFrustum with line 74 written as (d - eyeOffset) * -ratio. *)
computeFrustum_sameShift(scrWidth, scrAspect, scrDist, convergeOffset, eyeOffset, nearClip, farClip, kind) ==
    LET d == Mul(scrWidth, Add(convergeOffset, scrDist))
        den == Add(convergeOffset, scrDist)
    IN  IF DivRaises(kind, den) THEN Raised("ZeroDivisionError", 71)
        ELSE IF DivRaises(kind, scrAspect) THEN Raised("ZeroDivisionError", 75)
        ELSE LET ratio == Div(nearClip, den)
                 right == Mul(Sub(d, eyeOffset), ratio)
                 left == Mul(Sub(d, eyeOffset), Neg(ratio))
                 top == Mul(Div(scrWidth, scrAspect), nearClip)
                 bottom == Neg(top)
             IN  Returned(Frustum(left, right, bottom, top, nearClip, farClip))

computeFrustum(scrWidth, scrAspect, scrDist, convergeOffset, eyeOffset, nearClip, farClip, kind) ==
    LET d == Mul(scrWidth, Add(convergeOffset, scrDist))
        den == Add(convergeOffset, scrDist)
    IN  IF DivRaises(kind, den) THEN Raised("ZeroDivisionError", 71)
        ELSE IF DivRaises(kind, scrAspect) THEN Raised("ZeroDivisionError", 75)
        ELSE LET ratio == Div(nearClip, den)
                 right == Mul(Sub(d, eyeOffset), ratio)
                 left == Mul(Add(d, eyeOffset), Neg(ratio))
                 top == Mul(Div(scrWidth, scrAspect), nearClip)
                 bottom == Neg(top)
             IN  Returned(Frustum(left, right, bottom, top, nearClip, farClip))

-----------------------------------------------------------------------------
(* orthoProjectionMatrix, lines 164-198. *)

orthoProjectionMatrix(left, right, bottom, top, near, far, kind) ==
    IF DivRaises(kind, Sub(right, left)) THEN Raised("ZeroDivisionError", 190)
    ELSE IF DivRaises(kind, Sub(top, bottom)) THEN Raised("ZeroDivisionError", 191)
    ELSE IF DivRaises(kind, Sub(far, near)) THEN Raised("ZeroDivisionError", 192)
    ELSE LET m0 == Zeros44
             m1 == Set44(m0, 1, 1, Div(Two, Sub(right, left)))
             m2 == Set44(m1, 2, 2, Div(Two, Sub(top, bottom)))
             m3 == Set44(m2, 3, 3, Div(Neg(Two), Sub(far, near)))
             m4 == Set44(m3, 4, 1, Div(Add(right, left), Sub(right, left)))
             m5 == Set44(m4, 4, 2, Div(Add(top, bottom), Sub(top, bottom)))
             m6 == Set44(m5, 4, 3, Div(Add(far, near), Sub(far, near)))
             m7 == Set44(m6, 4, 4, One)
         IN  Returned(m7)

-----------------------------------------------------------------------------
(* perspectiveProjectionMatrix, lines 201-235. *)

(* perspectiveProjectionMatrix with the shear terms of lines 229-230
   negated. *)
perspectiveProjectionMatrix_negShear(left, right, bottom, top, near, far, kind) ==
    IF DivRaises(kind, Sub(right, left)) THEN Raised("ZeroDivisionError", 227)
    ELSE IF DivRaises(kind, Sub(top, bottom)) THEN Raised("ZeroDivisionError", 228)
    ELSE IF DivRaises(kind, Sub(far, near)) THEN Raised("ZeroDivisionError", 231)
    ELSE LET m0 == Zeros44
             m1 == Set44(m0, 1, 1, Div(Mul(Two, near), Sub(right, left)))
             m2 == Set44(m1, 2, 2, Div(Mul(Two, near), Sub(top, bottom)))
             m3 == Set44(m2, 3, 1, Div(Neg(Add(right, left)), Sub(right, left)))
             m4 == Set44(m3, 3, 2, Div(Neg(Add(top, bottom)), Sub(top, bottom)))
             m5 == Set44(m4, 3, 3, Div(Neg(Add(far, near)), Sub(far, near)))
             m6 == Set44(m5, 3, 4, Neg(One))
             m7 == Set44(m6, 4, 3,
                         Div(Neg(Mul(Mul(Two, far), near)), Sub(far, near)))
         IN  Returned(m7)

perspectiveProjectionMatrix(left, right, bottom, top, near, far, kind) ==
    IF DivRaises(kind, Sub(right, left)) THEN Raised("ZeroDivisionError", 227)
    ELSE IF DivRaises(kind, Sub(top, bottom)) THEN Raised("ZeroDivisionError", 228)
    ELSE IF DivRaises(kind, Sub(far, near)) THEN Raised("ZeroDivisionError", 231)
    ELSE LET m0 == Zeros44
             m1 == Set44(m0, 1, 1, Div(Mul(Two, near), Sub(right, left)))
             m2 == Set44(m1, 2, 2, Div(Mul(Two, near), Sub(top, bottom)))
             m3 == Set44(m2, 3, 1, Div(Add(right, left), Sub(right, left)))
             m4 == Set44(m3, 3, 2, Div(Add(top, bottom), Sub(top, bottom)))
             m5 == Set44(m4, 3, 3, Div(Neg(Add(far, near)), Sub(far, near)))
             m6 == Set44(m5, 3, 4, Neg(One))
             m7 == Set44(m6, 4, 3,
                         Div(Neg(Mul(Mul(Two, far), near)), Sub(far, near)))
         IN  Returned(m7)

-----------------------------------------------------------------------------
(* One-dimensional arrays, with numpy's shape rules. *)

VecKinds == {"list", "ndarray_float32"}

(* np.asarray(x, np.float32) returns x itself when x already is a float32
   array, and a fresh copy for every other container. *)
asarrayAliases(kind) == kind = "ndarray_float32"

Broadcastable(a, b) == Len(a) = Len(b) \/ Len(a) = 1 \/ Len(b) = 1

BLen(a, b) == IF Len(a) >= Len(b) THEN Len(a) ELSE Len(b)

At(v, i) == IF Len(v) = 1 THEN v[1] ELSE v[i]

(* The array as a tuple, every element computed once. *)
Array(f) == f \o <<>>

VSub(a, b) == Array([i \in 1..BLen(a, b) |-> Sub(At(a, i), At(b, i))])

VNeg(a) == Array([i \in 1..Len(a) |-> Neg(a[i])])

VDivS(a, x) == Array([i \in 1..Len(a) |-> Div(a[i], x)])

RECURSIVE DotUpTo(_, _, _)
DotUpTo(a, b, k) ==
    IF k = 0 THEN Zero ELSE Add(DotUpTo(a, b, k - 1), Mul(a[k], b[k]))

(* np.dot of two 1-D arrays: the lengths must agree (no broadcasting). *)
DotOK(a, b) == Len(a) = Len(b)

dot(a, b) == DotUpTo(a, b, Len(a))

norm(a) == Sqrt(dot(a, a))

(* np.cross: each operand must have 2 or 3 components; a 2-vector is taken
   with z = 0; two 2-vectors give the scalar z component (a 0-d array). *)
CrossOK(a, b) == Len(a) \in {2, 3} /\ Len(b) \in {2, 3}

CrossIsScalar(a, b) == Len(a) = 2 /\ Len(b) = 2

Ext3(v) == IF Len(v) = 2 THEN <<v[1], v[2], Zero>> ELSE v

Cross3(a, b) ==
    <<Sub(Mul(a[2], b[3]), Mul(a[3], b[2])),
      Sub(Mul(a[3], b[1]), Mul(a[1], b[3])),
      Sub(Mul(a[1], b[2]), Mul(a[2], b[1]))>>

cross(a, b) == Cross3(Ext3(a), Ext3(b))

(* M[:3, j] = v and M[3, :3] = v: v must have 3 components or 1. *)
Fits3(v) == Len(v) = 3 \/ Len(v) = 1

SetCol3(M, j, v) ==
    Array([i \in 1..4 |-> Array([k \in 1..4 |->
        IF k = j /\ i <= 3 THEN At(v, i) ELSE M[i][k]])])

SetRow4(M, v) ==
    Array([i \in 1..4 |-> Array([k \in 1..4 |->
        IF i = 4 /\ k <= 3 THEN At(v, k) ELSE M[i][k]])])

Identity44 ==
    Array([i \in 1..4 |-> Array([k \in 1..4 |-> IF i = k THEN One ELSE Zero])])

-----------------------------------------------------------------------------
(* lookAt, lines 238-282.  The arguments are the arrays np.asarray gives;
   the result carries the outcome and the contents of the upVec array after
   the call (line 267 divides it in place). *)

LookAtResult(out, up) == [out |-> out, upVec |-> up]

(* Lines 272-282 with the third axis written as f instead of -f. *)
lookAtMatrix_forward(s, u, f, eyePos) ==
    LET r0 == Zeros44
        r1 == SetCol3(r0, 1, s)
        r2 == SetCol3(r1, 2, u)
        r3 == SetCol3(r2, 3, f)
        rotMat == Set44(r3, 4, 4, One)
        transMat == SetRow4(Identity44, VNeg(eyePos))
    IN  matmul(transMat, rotMat)

(* Lines 272-282: the rotation with columns s, u, -f after the translation
   by -eyePos. *)
lookAtMatrix(s, u, f, eyePos) ==
    LET r0 == Zeros44
        r1 == SetCol3(r0, 1, s)
        r2 == SetCol3(r1, 2, u)
        r3 == SetCol3(r2, 3, VNeg(f))
        rotMat == Set44(r3, 4, 4, One)
        transMat == SetRow4(Identity44, VNeg(eyePos))
    IN  matmul(transMat, rotMat)

lookAt(eyePos, centerPos, upVec) ==
    IF ~Broadcastable(centerPos, eyePos)
    THEN LookAtResult(Raised("ValueError", 265), upVec)
    ELSE
    LET f0 == VSub(centerPos, eyePos)
        f == VDivS(f0, norm(f0))
        up == VDivS(upVec, norm(upVec))
    IN  IF ~CrossOK(f, up) THEN LookAtResult(Raised("ValueError", 269), up)
        ELSE IF CrossIsScalar(f, up)
        THEN LookAtResult(Raised("ValueError", 270), up)
        ELSE
        LET s == cross(f, up)
            u == cross(VDivS(s, norm(s)), f)
        IN  IF ~Fits3(f) THEN LookAtResult(Raised("ValueError", 275), up)
            ELSE IF ~Fits3(eyePos)
            THEN LookAtResult(Raised("ValueError", 280), up)
            ELSE LookAtResult(Returned(lookAtMatrix(s, u, f, eyePos)), up)

(* Every square root lookAt takes of these inputs is rational. *)
lookAtExact(eyePos, centerPos, upVec) ==
    Broadcastable(centerPos, eyePos) =>
        LET f0 == VSub(centerPos, eyePos)
        IN  /\ HasExactRoot(dot(f0, f0))
            /\ HasExactRoot(dot(upVec, upVec))
            /\ LET f == VDivS(f0, norm(f0))
                   up == VDivS(upVec, norm(upVec))
               IN  (CrossOK(f, up) /\ ~CrossIsScalar(f, up)) =>
                       HasExactRoot(dot(cross(f, up), cross(f, up)))

-----------------------------------------------------------------------------
(* generalPerspectiveProjection, lines 81-161.  The arguments are the
   arrays np.asarray gives; nearClip and farClip are Python floats.  The
   result carries the outcome and the frustum bounds handed to
   perspectiveProjectionMatrix (<<>> when line 147 is not reached). *)

GPPResult(out, passed) == [out |-> out, passed |-> passed]

(* Lines 150-161: the rotation with columns vr, vu, vn after the
   translation by -eyePos. *)
viewMatrix(vr, vu, vn, eyePos) ==
    LET r0 == Zeros44
        r1 == SetCol3(r0, 1, vr)
        r2 == SetCol3(r1, 2, vu)
        r3 == SetCol3(r2, 3, vn)
        rotMat == Set44(r3, 4, 4, One)
        transMat == SetRow4(Identity44, VNeg(eyePos))
    IN  matmul(transMat, rotMat)

(* Lines 139-144 with dist = dot(va, vn), the negation dropped. *)
frustumBounds_unsigned(vr, vu, vn, va, vb, vc, nearClip, farClip) ==
    LET dist == dot(va, vn)
        nearOverDist == Div(nearClip, dist)
        left == Mul(dot(vr, va), nearOverDist)
        right == Mul(dot(vr, vb), nearOverDist)
        bottom == Mul(dot(vu, va), nearOverDist)
        top == Mul(dot(vu, vc), nearOverDist)
    IN  Frustum(left, right, bottom, top, nearClip, farClip)

(* Lines 139-144: the bounds of the off-axis frustum on the near plane. *)
frustumBounds(vr, vu, vn, va, vb, vc, nearClip, farClip) ==
    LET dist == Neg(dot(va, vn))
        nearOverDist == Div(nearClip, dist)
        left == Mul(dot(vr, va), nearOverDist)
        right == Mul(dot(vr, vb), nearOverDist)
        bottom == Mul(dot(vu, va), nearOverDist)
        top == Mul(dot(vu, vc), nearOverDist)
    IN  Frustum(left, right, bottom, top, nearClip, farClip)

generalPerspectiveProjection(posBottomLeft, posBottomRight, posTopLeft, eyePos, nearClip, farClip) ==
    IF ~Broadcastable(posBottomRight, posBottomLeft)
    THEN GPPResult(Raised("ValueError", 127), <<>>)
    ELSE IF ~Broadcastable(posTopLeft, posBottomLeft)
    THEN GPPResult(Raised("ValueError", 129), <<>>)
    ELSE
    LET vr0 == VSub(posBottomRight, posBottomLeft)
        vr == VDivS(vr0, norm(vr0))
        vu0 == VSub(posTopLeft, posBottomLeft)
        vu == VDivS(vu0, norm(vu0))
    IN  IF ~CrossOK(vr, vu) THEN GPPResult(Raised("ValueError", 131), <<>>)
        ELSE IF ~Broadcastable(posBottomLeft, eyePos)
        THEN GPPResult(Raised("ValueError", 135), <<>>)
        ELSE IF ~Broadcastable(posBottomRight, eyePos)
        THEN GPPResult(Raised("ValueError", 136), <<>>)
        ELSE IF ~Broadcastable(posTopLeft, eyePos)
        THEN GPPResult(Raised("ValueError", 137), <<>>)
        ELSE
        LET va == VSub(posBottomLeft, eyePos)
            vb == VSub(posBottomRight, eyePos)
            vc == VSub(posTopLeft, eyePos)
        IN  IF CrossIsScalar(vr, vu)
            THEN (* vn is 0-d: dist and nearOverDist are arrays shaped like
                    va, and float() of an array of several elements fails *)
                 IF ~DotOK(vr, va)
                 THEN GPPResult(Raised("ValueError", 141), <<>>)
                 ELSE GPPResult(Raised("TypeError", 141), <<>>)
            ELSE
            LET vn0 == cross(vr, vu)
                vn == VDivS(vn0, norm(vn0))
            IN  IF ~DotOK(va, vn)
                THEN GPPResult(Raised("ValueError", 139), <<>>)
                ELSE IF ~DotOK(vr, va)
                THEN GPPResult(Raised("ValueError", 141), <<>>)
                ELSE IF ~DotOK(vr, vb)
                THEN GPPResult(Raised("ValueError", 142), <<>>)
                ELSE IF ~DotOK(vu, va)
                THEN GPPResult(Raised("ValueError", 143), <<>>)
                ELSE IF ~DotOK(vu, vc)
                THEN GPPResult(Raised("ValueError", 144), <<>>)
                ELSE
                LET passed == frustumBounds(vr, vu, vn, va, vb, vc,
                                            nearClip, farClip)
                    proj == perspectiveProjectionMatrix(
                                passed.left, passed.right, passed.bottom,
                                passed.top, nearClip, farClip, "pyfloat")
                IN  IF proj.status = "raised" THEN GPPResult(proj, passed)
                    ELSE IF ~Fits3(vr)
                    THEN GPPResult(Raised("ValueError", 152), passed)
                    ELSE IF ~Fits3(vu)
                    THEN GPPResult(Raised("ValueError", 153), passed)
                    ELSE IF ~Fits3(eyePos)
                    THEN GPPResult(Raised("ValueError", 159), passed)
                    ELSE
                    GPPResult(
                        Returned(<<proj.value, viewMatrix(vr, vu, vn, eyePos)>>),
                        passed)

(* Every square root generalPerspectiveProjection takes is rational. *)
generalPerspectiveProjectionExact(posBottomLeft, posBottomRight, posTopLeft) ==
    (Broadcastable(posBottomRight, posBottomLeft)
        /\ Broadcastable(posTopLeft, posBottomLeft)) =>
        LET vr0 == VSub(posBottomRight, posBottomLeft)
            vu0 == VSub(posTopLeft, posBottomLeft)
        IN  /\ HasExactRoot(dot(vr0, vr0))
            /\ HasExactRoot(dot(vu0, vu0))
            /\ LET vr == VDivS(vr0, norm(vr0))
                   vu == VDivS(vu0, norm(vu0))
               IN  (CrossOK(vr, vu) /\ ~CrossIsScalar(vr, vu)) =>
                       HasExactRoot(dot(cross(vr, vu), cross(vr, vu)))

-----------------------------------------------------------------------------
(* Input sets. *)

Cube(lo, hi) ==
    {<<Num(x), Num(y), Num(z)>> : x \in lo..hi, y \in lo..hi, z \in lo..hi}

(* v cut or zero-padded to n components: a malformed vector argument. *)
Resize(v, n) == Array([i \in 1..n |-> IF i <= 3 THEN v[i] ELSE Zero])

Masked(v, n, on) == IF on THEN Resize(v, n) ELSE v

Obj(kind, val) == [kind |-> kind, val |-> val]

ScalarCall(op, s, kind) == [op |-> op, s |-> s, skind |-> kind, v |-> <<>>]

VectorCall(op, v, s) == [op |-> op, s |-> s, skind |-> "pyfloat", v |-> v]

Pending(c, m) ==
    /\ pc = "ready"
    /\ call = c
    /\ mem = m
    /\ ret = NoOutcome
    /\ inner = <<>>

(* nearClip and farClip: farClip = nearClip is the degenerate pair. *)
ClipPairs == {<<Num(n), Num(n + k)>> : n \in 1..MaxNear, k \in {0, 1}}

InitComputeFrustum ==
    \E w \in 1..MaxWidth, a \in 0..MaxAspect, dist \in 0..MaxDist,
       conv \in {-1, 0, 1}, off \in -MaxOffset..MaxOffset,
       nf \in ClipPairs, kind \in ScalarKinds :
        Pending(ScalarCall("computeFrustum",
                           <<Num(w), Num(a), Num(dist), Num(conv), Num(off),
                             nf[1], nf[2]>>, kind), <<>>)

InitProjectionMatrix ==
    \E op \in {"orthoProjectionMatrix", "perspectiveProjectionMatrix"},
       l \in -MaxExt..MaxExt, r \in -MaxExt..MaxExt,
       b \in -MaxExt..MaxExt, t \in -MaxExt..MaxExt,
       n \in 1..MaxClip, f \in 1..MaxClip, kind \in ScalarKinds :
        Pending(ScalarCall(op, <<Num(l), Num(r), Num(b), Num(t),
                                 Num(n), Num(f)>>, kind), <<>>)

UpVectors == {u \in Cube(0, MaxUp) : HasExactRoot(dot(u, u))}

InitLookAt ==
    \E e \in Cube(0, MaxPos), c \in Cube(0, MaxPos) :
        /\ HasExactRoot(dot(VSub(c, e), VSub(c, e)))
        /\ \E u \in UpVectors :
            /\ lookAtExact(e, c, u)
            /\ \E kind \in VecKinds :
                 Pending(VectorCall("lookAt", <<e, c, u>>, <<>>),
                         <<Obj(kind, e), Obj(kind, c), Obj(kind, u)>>)

InitLookAtMalformed ==
    \E e0 \in Cube(0, 1), c0 \in Cube(0, 1),
       u0 \in {<<Zero, One, Zero>>, <<Zero, Num(3), Num(4)>>},
       n \in 1..MaxLen, on \in [1..3 -> BOOLEAN], kind \in VecKinds :
        LET e == Masked(e0, n, on[1])
            c == Masked(c0, n, on[2])
            u == Masked(u0, n, on[3])
        IN  /\ lookAtExact(e, c, u)
            /\ Pending(VectorCall("lookAt", <<e, c, u>>, <<>>),
                       <<Obj(kind, e), Obj(kind, c), Obj(kind, u)>>)

ScreenEdges == {v \in Cube(0, MaxScr) : HasExactRoot(dot(v, v))}

InitGPP ==
    \E br \in ScreenEdges, tl \in ScreenEdges :
        LET bl == <<Zero, Zero, Zero>>
        IN  /\ generalPerspectiveProjectionExact(bl, br, tl)
            /\ \E eye \in Cube(0, MaxScr), nf \in ClipPairs :
                 LET kind == "ndarray_float32"
                 IN  Pending(VectorCall("generalPerspectiveProjection",
                                        <<bl, br, tl, eye>>, nf),
                             <<Obj(kind, bl), Obj(kind, br), Obj(kind, tl),
                               Obj(kind, eye)>>)

(* A screen of width w and height h in the plane z = 0, centred on the
   origin, seen from (0, 0, dist). *)
CentredScreen(w, h, dist) ==
    <<<<Q(-w, 2), Q(-h, 2), Zero>>, <<Q(w, 2), Q(-h, 2), Zero>>,
      <<Q(-w, 2), Q(h, 2), Zero>>, <<Zero, Zero, Num(dist)>>>>

InitGPPCentred ==
    \E w \in 1..MaxWidth, h \in 1..MaxWidth, dist \in 1..MaxDist,
       nf \in ClipPairs, kind \in VecKinds :
        LET v == CentredScreen(w, h, dist)
        IN  Pending(VectorCall("generalPerspectiveProjection", v, nf),
                    <<Obj(kind, v[1]), Obj(kind, v[2]), Obj(kind, v[3]),
                      Obj(kind, v[4])>>)

InitGPPMalformed ==
    \E eye0 \in Cube(0, 1), n \in 1..MaxLen, on \in [1..4 -> BOOLEAN],
       kind \in VecKinds :
        LET bl == Masked(<<Zero, Zero, Zero>>, n, on[1])
            br == Masked(<<One, Zero, Zero>>, n, on[2])
            tl == Masked(<<Zero, One, Zero>>, n, on[3])
            eye == Masked(eye0, n, on[4])
        IN  /\ generalPerspectiveProjectionExact(bl, br, tl)
            /\ Pending(VectorCall("generalPerspectiveProjection",
                                  <<bl, br, tl, eye>>, <<One, Two>>),
                       <<Obj(kind, bl), Obj(kind, br), Obj(kind, tl),
                         Obj(kind, eye)>>)

Init ==
    \/ InitComputeFrustum
    \/ InitProjectionMatrix
    \/ InitLookAt
    \/ InitLookAtMalformed
    \/ InitGPP
    \/ InitGPPCentred
    \/ InitGPPMalformed

-----------------------------------------------------------------------------
(* The calls. *)

CallComputeFrustum ==
    /\ pc = "ready"
    /\ call.op = "computeFrustum"
    /\ ret' = computeFrustum(call.s[1], call.s[2], call.s[3], call.s[4],
                             call.s[5], call.s[6], call.s[7], call.skind)
    /\ pc' = "done"
    /\ UNCHANGED <<call, mem, inner>>

CallOrthoProjectionMatrix ==
    /\ pc = "ready"
    /\ call.op = "orthoProjectionMatrix"
    /\ ret' = orthoProjectionMatrix(call.s[1], call.s[2], call.s[3],
                                    call.s[4], call.s[5], call.s[6],
                                    call.skind)
    /\ pc' = "done"
    /\ UNCHANGED <<call, mem, inner>>

CallPerspectiveProjectionMatrix ==
    /\ pc = "ready"
    /\ call.op = "perspectiveProjectionMatrix"
    /\ ret' = perspectiveProjectionMatrix(call.s[1], call.s[2], call.s[3],
                                          call.s[4], call.s[5], call.s[6],
                                          call.skind)
    /\ pc' = "done"
    /\ UNCHANGED <<call, mem, inner>>

(* Lines 261-263 bind the names to np.asarray's arrays; line 267 writes the
   normalised vector into the upVec array, which is the caller's own object
   when asarray aliased it. *)
CallLookAt ==
    /\ pc = "ready"
    /\ call.op = "lookAt"
    /\ LET r == lookAt(mem[1].val, mem[2].val, mem[3].val)
       IN  /\ ret' = r.out
           /\ mem' = [mem EXCEPT ![3].val =
                         IF asarrayAliases(mem[3].kind) THEN r.upVec ELSE @]
    /\ pc' = "done"
    /\ UNCHANGED <<call, inner>>

(* Lines 121-124 bind the names to np.asarray's arrays; every later array is
   a fresh result of a subtraction or a cross product, so no argument array
   is written. *)
CallGeneralPerspectiveProjection ==
    /\ pc = "ready"
    /\ call.op = "generalPerspectiveProjection"
    /\ LET r == generalPerspectiveProjection(
                    mem[1].val, mem[2].val, mem[3].val, mem[4].val,
                    call.s[1], call.s[2])
       IN  /\ ret' = r.out
           /\ inner' = r.passed
    /\ pc' = "done"
    /\ UNCHANGED <<call, mem>>

Next ==
    \/ CallComputeFrustum
    \/ CallOrthoProjectionMatrix
    \/ CallPerspectiveProjectionMatrix
    \/ CallLookAt
    \/ CallGeneralPerspectiveProjection

Spec == Init /\ [][Next]_vars

-----------------------------------------------------------------------------
(* Vocabulary of the properties. *)

Done(op) == pc = "done" /\ call.op = op

WellFormed == \A i \in 1..Len(call.v) : Len(call.v[i]) = 3

Row(p) == <<p[1], p[2], p[3], One>>

Column(M, j) == <<M[1][j], M[2][j], M[3][j]>>

ZeroVec == <<Zero, Zero, Zero>>

(* Arguments of a projection-matrix call. *)
argL == call.s[1]
argR == call.s[2]
argB == call.s[3]
argT == call.s[4]
argN == call.s[5]
argF == call.s[6]

-----------------------------------------------------------------------------
(* C1: for every l, r, b, t, n, f with r # l, t # b, f # n, the matrix of
   orthoProjectionMatrix, applied as [x, y, z, 1] times P, maps (l, b, -n)
   to clip x = -1, y = -1 and (r, t, -n) to clip x = 1, y = 1, with w = 1. *)
C1_OrthoMapsCorners ==
    (Done("orthoProjectionMatrix") /\ argR # argL /\ argT # argB /\ argF # argN) =>
        /\ ret.status = "returned"
        /\ LET lo == RowTimes(<<argL, argB, Neg(argN), One>>, ret.value)
               hi == RowTimes(<<argR, argT, Neg(argN), One>>, ret.value)
           IN  /\ lo[1] = Neg(One) /\ lo[2] = Neg(One) /\ lo[4] = One
               /\ hi[1] = One /\ hi[2] = One /\ hi[4] = One

-----------------------------------------------------------------------------
(* C2: for every l, r, b, t and 0 < n < f with r # l and t # b, the matrix
   of perspectiveProjectionMatrix, applied as [x, y, z, 1] times P and
   divided by the resulting w, maps the near-plane corners (l, b, -n),
   (r, b, -n), (l, t, -n), (r, t, -n) to (-1, -1, -1), (1, -1, -1),
   (-1, 1, -1), (1, 1, -1); w before the divide is n and the
   perspective-divide entry is -1. *)
NearCornerOK(x, y, cx, cy) ==
    LET v == RowTimes(<<x, y, Neg(argN), One>>, ret.value)
    IN  /\ v[4] = argN
        /\ Div(v[1], v[4]) = cx
        /\ Div(v[2], v[4]) = cy
        /\ Div(v[3], v[4]) = Neg(One)

C2_PerspectiveMapsNearCorners ==
    (Done("perspectiveProjectionMatrix") /\ argR # argL /\ argT # argB
        /\ Lt(Zero, argN) /\ Lt(argN, argF)) =>
        /\ ret.status = "returned"
        /\ ret.value[3][4] = Neg(One)
        /\ NearCornerOK(argL, argB, Neg(One), Neg(One))
        /\ NearCornerOK(argR, argB, One, Neg(One))
        /\ NearCornerOK(argL, argT, Neg(One), One)
        /\ NearCornerOK(argR, argT, One, One)

(* An asymmetric frustum went through perspectiveProjectionMatrix. *)
C2_Witness ==
    /\ Done("perspectiveProjectionMatrix")
    /\ ret.status = "returned"
    /\ Add(argL, argR) # Zero /\ Add(argB, argT) # Zero
    /\ argR # argL /\ argT # argB
    /\ Lt(Zero, argN) /\ Lt(argN, argF)

-----------------------------------------------------------------------------
(* C3: for a screen of width w and aspect a (height w/a) in the plane z = 0,
   centred on the origin, and the eye at (0, 0, dist), the frustum bounds
   generalPerspectiveProjection passes to perspectiveProjectionMatrix equal
   those of computeFrustum(w, a, dist, 0, 0, nearClip, farClip).  (Stated
   for 0 < nearClip < farClip.) *)
C3_CentredScreenMatchesComputeFrustum ==
    (Done("generalPerspectiveProjection") /\ Lt(call.s[1], call.s[2])) =>
        \A w \in 1..MaxWidth, h \in 1..MaxWidth, dist \in 1..MaxDist :
            call.v = CentredScreen(w, h, dist) =>
                LET cf == computeFrustum(Num(w), Q(w, h), Num(dist), Zero, Zero,
                                         call.s[1], call.s[2], "pyfloat")
                IN  /\ cf.status = "returned"
                    /\ inner # <<>>
                    /\ inner.left = cf.value.left
                    /\ inner.right = cf.value.right
                    /\ inner.bottom = cf.value.bottom
                    /\ inner.top = cf.value.top

-----------------------------------------------------------------------------
(* C4: for every eyePos, centerPos, upVec with centerPos # eyePos and upVec
   non-zero and not parallel to centerPos - eyePos, the upper-left 3x3 block
   of lookAt's matrix is orthonormal: its axis vectors s, u, -f have length
   1 and are pairwise perpendicular. *)
NotParallel == cross(VSub(call.v[2], call.v[1]), call.v[3]) # ZeroVec

C4_LookAtRotationOrthonormal ==
    (Done("lookAt") /\ WellFormed /\ NotParallel) =>
        /\ ret.status = "returned"
        /\ \A i \in 1..3 : dot(Column(ret.value, i), Column(ret.value, i)) = One
        /\ \A i \in 1..3 : \A j \in 1..3 :
               i # j => dot(Column(ret.value, i), Column(ret.value, j)) = Zero

-----------------------------------------------------------------------------
(* C5: computeFrustum at eyeOffset = e and at eyeOffset = -e gives mirror
   images: left(e) = -right(-e), right(e) = -left(-e), with bottom, top,
   nearVal, farVal identical; at e = 0, left = -right.  (scrAspect # 0 and
   convergeOffset + scrDist # 0.) *)
C5_FrustumMirror ==
    (Done("computeFrustum") /\ call.s[2] # Zero
        /\ Add(call.s[4], call.s[3]) # Zero) =>
        LET m == computeFrustum(call.s[1], call.s[2], call.s[3], call.s[4],
                                Neg(call.s[5]), call.s[6], call.s[7],
                                call.skind)
        IN  /\ ret.status = "returned" /\ m.status = "returned"
            /\ ret.value.left = Neg(m.value.right)
            /\ ret.value.right = Neg(m.value.left)
            /\ ret.value.bottom = m.value.bottom
            /\ ret.value.top = m.value.top
            /\ ret.value.nearVal = m.value.nearVal
            /\ ret.value.farVal = m.value.farVal
            /\ (call.s[5] = Zero => ret.value.left = Neg(ret.value.right))

(* computeFrustum returned a sheared frustum for a non-zero eyeOffset. *)
C5_Witness ==
    /\ Done("computeFrustum")
    /\ ret.status = "returned"
    /\ call.s[5] # Zero
    /\ ret.value.left # Neg(ret.value.right)

-----------------------------------------------------------------------------
(* C6: for upVec not parallel to centerPos - eyePos, lookAt's matrix V,
   applied as [p, 1] times V, maps eyePos to the origin and centerPos to
   (0, 0, -|centerPos - eyePos|); for eye = (0, 0, d), d > 0, center =
   (0, 0, 0), up = (0, 1, 0) the rotation block is the identity and the
   translation entries are (0, 0, -d). *)
Aligned ==
    /\ call.v[1][1] = Zero /\ call.v[1][2] = Zero /\ Lt(Zero, call.v[1][3])
    /\ call.v[2] = ZeroVec
    /\ call.v[3] = <<Zero, One, Zero>>

C6_LookAtMapsEyeAndCenter ==
    (Done("lookAt") /\ WellFormed /\ NotParallel) =>
        /\ ret.status = "returned"
        /\ RowTimes(Row(call.v[1]), ret.value) = <<Zero, Zero, Zero, One>>
        /\ RowTimes(Row(call.v[2]), ret.value) =
               <<Zero, Zero, Neg(norm(VSub(call.v[2], call.v[1]))), One>>
        /\ Aligned =>
               /\ \A i \in 1..3 : \A j \in 1..3 :
                      ret.value[i][j] = IF i = j THEN One ELSE Zero
               /\ ret.value[4] = <<Zero, Zero, Neg(call.v[1][3]), One>>

(* lookAt returned for an up vector that is neither parallel nor
   perpendicular to the view direction, and an eye off the origin. *)
C6_Witness ==
    /\ Done("lookAt") /\ WellFormed /\ NotParallel
    /\ ret.status = "returned"
    /\ dot(VSub(call.v[2], call.v[1]), call.v[3]) # Zero
    /\ call.v[1] # ZeroVec

-----------------------------------------------------------------------------
(* C7: for r # l, t # b and near = far given as ordinary (Python) floats,
   orthoProjectionMatrix and perspectiveProjectionMatrix both return a 4x4
   matrix with at least one non-finite entry; neither raises. *)
C7_DegenerateClipReturnsNonFinite ==
    ((Done("orthoProjectionMatrix") \/ Done("perspectiveProjectionMatrix"))
        /\ call.skind = "pyfloat"
        /\ argR # argL /\ argT # argB /\ argN = argF) =>
        /\ ret.status = "returned"
        /\ ~MatFinite(ret.value)

-----------------------------------------------------------------------------
(* C8: after any call to lookAt or generalPerspectiveProjection every input
   vector the caller passed holds exactly the values it held before the
   call, for every container type including float32 arrays; so a second
   call with the same argument objects returns the identical result.
   (Stated for 3-component arguments, and for lookAt an upVec not parallel
   to the view direction: the calls that return a finite matrix.) *)
C8_InputsUntouched ==
    /\ (Done("lookAt") /\ WellFormed /\ NotParallel) =>
        /\ \A i \in 1..3 : mem[i].val = call.v[i]
        /\ lookAt(mem[1].val, mem[2].val, mem[3].val).out = ret
    /\ (Done("generalPerspectiveProjection") /\ WellFormed) =>
        /\ \A i \in 1..4 : mem[i].val = call.v[i]
        /\ generalPerspectiveProjection(
               mem[1].val, mem[2].val, mem[3].val, mem[4].val,
               call.s[1], call.s[2]).out = ret

-----------------------------------------------------------------------------
(* C9: whenever a vector argument of lookAt or generalPerspectiveProjection
   does not have exactly 3 components, the call fails before any arithmetic
   (that is, in the conversions of lines 261-263 and 121-124) and never
   returns a matrix. *)
C9_ShapeErrorFailsFast ==
    /\ (Done("lookAt") /\ ~WellFormed) =>
           (ret.status = "raised" /\ ret.line <= 263)
    /\ (Done("generalPerspectiveProjection") /\ ~WellFormed) =>
           (ret.status = "raised" /\ ret.line <= 124)

-----------------------------------------------------------------------------
(* C10: every set of frustum parameters produced has right > left,
   top > bottom and farVal > nearVal > 0: (i) for computeFrustum with
   scrWidth > 0, scrAspect > 0, convergeOffset + scrDist # 0,
   0 < nearClip < farClip; (ii) for the bounds generalPerspectiveProjection
   passes on, for a non-degenerate rectangular screen, 0 < nearClip <
   farClip and any eye position not on the screen plane. *)
FrustumOrdered(fr) ==
    /\ Lt(fr.left, fr.right)
    /\ Lt(fr.bottom, fr.top)
    /\ Lt(Zero, fr.nearVal)
    /\ Lt(fr.nearVal, fr.farVal)

FrustumCase ==
    /\ Done("computeFrustum")
    /\ Lt(Zero, call.s[1]) /\ Lt(Zero, call.s[2])
    /\ Add(call.s[4], call.s[3]) # Zero
    /\ Lt(Zero, call.s[6]) /\ Lt(call.s[6], call.s[7])

(* Signed distance of the eye from the screen plane, times the screen's
   area: positive on the side the normal cross(vr, vu) points to. *)
EyeSide ==
    dot(VSub(call.v[4], call.v[1]),
        cross(VSub(call.v[2], call.v[1]), VSub(call.v[3], call.v[1])))

RectangularScreen ==
    /\ VSub(call.v[2], call.v[1]) # ZeroVec
    /\ VSub(call.v[3], call.v[1]) # ZeroVec
    /\ dot(VSub(call.v[2], call.v[1]), VSub(call.v[3], call.v[1])) = Zero

ScreenCase ==
    /\ Done("generalPerspectiveProjection") /\ WellFormed
    /\ RectangularScreen
    /\ Lt(Zero, call.s[1]) /\ Lt(call.s[1], call.s[2])

C10_FrustumOrdered_AnyEye ==
    /\ FrustumCase => (ret.status = "returned" /\ FrustumOrdered(ret.value))
    /\ (ScreenCase /\ EyeSide # Zero) =>
           (inner # <<>> /\ FrustumOrdered(inner))

(* C10 (amended): as C10, with the eye strictly on the front side of the
   screen, the side the normal cross(vr, vu) points to. *)
C10_FrustumOrdered_EyeInFront ==
    /\ FrustumCase => (ret.status = "returned" /\ FrustumOrdered(ret.value))
    /\ (ScreenCase /\ Lt(Zero, EyeSide)) =>
           (inner # <<>> /\ FrustumOrdered(inner))

(* An eye in front of a rectangular screen and off its axis: the bounds
   passed on are asymmetric. *)
C10_Witness ==
    /\ ScreenCase /\ Lt(Zero, EyeSide)
    /\ ret.status = "returned"
    /\ inner.left # Neg(inner.right)

====
